---- MODULE Spec2Model ----
(***************************************************************************)
(* A model of textindex_ply's IndexBuilder (src/textindex_ply/             *)
(* index_builder.py): the walk over parsed nodes (process), the per-type   *)
(* reductions (handle_directive, handle_mark, handle_range_block) and the  *)
(* group / sort / merge reduction (finalize, as_dict).                     *)
(*                                                                         *)
(* Python values are modelled as follows.                                  *)
(*   str    a tuple of code points, <<97, 98>> for "ab"; comparison is     *)
(*          lexicographic on code points, as in Python                     *)
(*   None   the value None below, different from every str                 *)
(*   dict   a function from keys to values (a record when the keys are     *)
(*          attribute-like names); dict.get(k) is Get(d, k)                *)
(*   list   a sequence                                                     *)
(* The lexer (lexer.py) and the parser (parser.py) are modelled further    *)
(* down, as the scanner and the LALR(1) parser that PLY builds from them.  *)
(* The values stored in self.index are tagged, [dict |-> f] for a nested   *)
(* mapping and [list |-> s] for a bucket, because handle_mark tests        *)
(* isinstance(current, dict).                                              *)
(***************************************************************************)
EXTENDS Integers, Sequences, FiniteSets, TLC

VARIABLES
    entries,             \* self.entries
    index,               \* self.index
    processing_enabled,  \* self.processing_enabled
    enabled,             \* self.enabled, the attribute handle_directive sets
    fed,                 \* history: every node handed to process so far
    op,                  \* history: the last call made on the builder
    result,              \* history: what the last call returned
    raised,              \* history: the exception the last call raised
    finalizes,           \* history: how many times finalize has run
    source               \* the text handed to the lexer or the parser

vars == <<entries, index, processing_enabled, enabled, fed, op, result,
          raised, finalizes, source>>

----------------------------------------------------------------------------
(* Bounds of the model *)

\* the longest node sequence handed to one process call
MaxNodes == 2

\* the number of nodes handed to process over the life of a builder that
\* is only fed
MaxFed == 4

\* the same for a builder that is fed, finalized and read in any order
MaxLife == 2

\* the longest entry list assigned to builder.entries directly
MaxEntries == 2

\* the number of times finalize runs in a builder's life
MaxFinalize == 2

\* the number of nodes handed to a builder that is fed directives only
MaxDirectives == 2

\* the number of nodes handed to a builder that is fed range blocks
MaxBlockFed == 2

\* the longest markup of range forms handed to the parser, in forms
MaxForms == 3

\* the longest text handed to the lexer, in characters
MaxInput == 4

----------------------------------------------------------------------------
(* Python values *)

None == << -1 >>

\* bool(v) for v a str or None
Truthy(v) == v # None /\ v # << >>

\* x or y
Or(x, y) == IF Truthy(x) THEN x ELSE y

\* d.get(k)
Get(d, k) == IF k \in DOMAIN d THEN d[k] ELSE None

\* d.get(k, default)
GetDefault(d, k, default) == IF k \in DOMAIN d THEN d[k] ELSE default

\* str.upper() on one character: a..z map to A..Z, all else is unchanged
Upper(c) == IF c \in 97..122 THEN c - 32 ELSE c

\* s < t on str: lexicographic order on code points
RECURSIVE StrLess(_, _)
StrLess(s, t) ==
    IF t = << >> THEN FALSE
    ELSE IF s = << >> THEN TRUE
    ELSE IF Head(s) # Head(t) THEN Head(s) < Head(t)
    ELSE StrLess(Tail(s), Tail(t))

StrLeq(s, t) == s = t \/ StrLess(s, t)

\* the strings of the model
s_empty == << >>
s_A == << 65 >>
s_a == << 97 >>
s_b == << 98 >>
s_ab == << 97, 98 >>
s_ba == << 98, 97 >>
s_Ab == << 65, 98 >>

EmptyDict == [dict |-> << >>]

IsDict(v) == "dict" \in DOMAIN v

----------------------------------------------------------------------------
(* AST nodes (ast.py) *)

\* IndexMark(heading=..., subheadings=...), the other fields at their defaults
IndexMark(heading, subheadings) ==
    [node |-> "IndexMark", heading |-> heading, subheadings |-> subheadings,
     alias |-> None, closing |-> FALSE, crossrefs |-> << >>,
     emphasis |-> FALSE, sort_key |-> None, suffix |-> None,
     wildcard |-> None]

\* an IndexDirective whose fields hold these values; kind is a plain str
\* attribute, so handle_directive can meet any kind
IndexDirective(name, kind, args) ==
    [node |-> "IndexDirective", name |-> name, kind |-> kind, args |-> args]

IndexRangeBlock(start, content, end) ==
    [node |-> "IndexRangeBlock", start |-> start, content |-> content,
     end |-> end]

\* ProcessingControl(enabled=...)
ProcessingControl(e) == [node |-> "ProcessingControl", enabled |-> e]

\* a literal text run, as the parser's text_elements puts it between nodes
Text(s) == [node |-> "str", value |-> s]

\* repr(node): a rendering of the node as a str; it keeps the node's class
\* and field values and is no node itself
Repr(n) == [repr |-> n]

\* a start or end of None in an IndexRangeBlock
NoneNode == [node |-> "NoneType"]

----------------------------------------------------------------------------
(* IndexBuilder: a builder is the record of its attributes, together with  *)
(* raised, the exception that ended the call in progress ("none" if none)  *)

\* IndexBuilder.__init__
NewBuilder ==
    [entries |-> << >>, index |-> EmptyDict, processing_enabled |-> TRUE,
     enabled |-> "unset", raised |-> "none"]

\* arg_value(*keys): the first matching argument value
RECURSIVE arg_value(_, _)
arg_value(args, keys) ==
    IF keys = << >> THEN None
    ELSE IF Head(keys) \in DOMAIN args THEN args[Head(keys)]
    ELSE arg_value(args, Tail(keys))

\* DirectiveEntry with the target of an xref entry read from the see
\* argument whatever the kind
DirectiveEntry_SeeTarget(directive) ==
    LET args == directive.args
        kind == directive.kind
    IN  IF kind \in {"insert", "open", "close", "force"}
        THEN [type |-> "directive", kind |-> kind, name |-> directive.name,
              args |-> args]
        ELSE IF kind = "range"
        THEN [type |-> "range", name |-> directive.name,
              label |-> arg_value(args, <<"range">>), args |-> args]
        ELSE IF kind \in {"see", "seealso"}
        THEN [type |-> "xref", xref_kind |-> kind, target |-> Get(args, "see")]
        ELSE IF kind = "disable"
        THEN [type |-> "control", action |-> "disable"]
        ELSE IF kind = "enable"
        THEN [type |-> "control", action |-> "enable"]
        ELSE [type |-> "unknown_directive", kind |-> kind,
              args |-> directive.args]

\* the entry handle_directive builds, by directive.kind
DirectiveEntry(directive) ==
    LET args == directive.args   \* "directive.args or {}", args being a dict
        kind == directive.kind
    IN  IF kind \in {"insert", "open", "close", "force"}
        THEN [type |-> "directive", kind |-> kind, name |-> directive.name,
              args |-> args]
        ELSE IF kind = "range"
        THEN [type |-> "range", name |-> directive.name,
              label |-> arg_value(args, <<"range">>), args |-> args]
        ELSE IF kind \in {"see", "seealso"}
        THEN [type |-> "xref", xref_kind |-> kind, target |-> Get(args, kind)]
        ELSE IF kind = "disable"
        THEN [type |-> "control", action |-> "disable"]
        ELSE IF kind = "enable"
        THEN [type |-> "control", action |-> "enable"]
        ELSE [type |-> "unknown_directive", kind |-> kind,
              args |-> directive.args]

\* handle_directive
handle_directive(b, directive) ==
    [b EXCEPT !.entries = Append(@, DirectiveEntry(directive)),
              !.enabled = IF directive.kind = "disable" THEN "False"
                          ELSE IF directive.kind = "enable" THEN "True"
                          ELSE @]

\* InsertPath with current[part] = {} done for every part, present or not
RECURSIVE InsertPath_Overwrite(_, _)
InsertPath_Overwrite(current, path) ==
    LET part == Head(path)
        f == current.dict
        g == [k \in DOMAIN f \cup {part} |->
                IF k = part THEN EmptyDict ELSE f[k]]
    IN  IF Len(path) = 1 THEN [tree |-> [dict |-> g], err |-> FALSE]
        ELSE LET r == InsertPath_Overwrite(g[part], Tail(path))
             IN  [tree |-> [dict |-> [g EXCEPT ![part] = r.tree]],
                  err |-> r.err]

\* the loop of handle_mark over full_path, on the mapping `current`:
\* [tree |-> the mapping afterwards, err |-> whether the walk raised].
\* Indexing a bucket (a list) with a str raises TypeError.
RECURSIVE InsertPath(_, _)
InsertPath(current, path) ==
    LET part == Head(path)
        f == current.dict
        g == IF part \in DOMAIN f THEN f
             ELSE [k \in DOMAIN f \cup {part} |->
                     IF k = part THEN EmptyDict ELSE f[k]]
        child == g[part]
    IN  IF Len(path) = 1 THEN [tree |-> [dict |-> g], err |-> FALSE]
        ELSE IF ~IsDict(child) THEN [tree |-> [dict |-> g], err |-> TRUE]
        ELSE LET r == InsertPath(child, Tail(path))
             IN  [tree |-> [dict |-> [g EXCEPT ![part] = r.tree]],
                  err |-> r.err]

\* the entry handle_mark records
MarkEntry(mark) ==
    [type |-> "mark", heading |-> mark.heading,
     subheadings |-> mark.subheadings,   \* a list in every mark modelled
     crossrefs |-> mark.crossrefs, suffix |-> mark.suffix,
     sort_key |-> mark.sort_key, emphasis |-> mark.emphasis,
     closing |-> mark.closing, alias |-> mark.alias,
     wildcard |-> mark.wildcard]

\* handle_mark
handle_mark(b, mark) ==
    LET entry == MarkEntry(mark)
        full_path == <<mark.heading>> \o entry.subheadings
        r == InsertPath(b.index, full_path)
    IN  [b EXCEPT !.entries = Append(@, entry),
                  !.index = r.tree,
                  !.raised = IF r.err THEN "TypeError" ELSE @]

\* the normalized content of handle_range_block
RECURSIVE NormalizeContent(_)
NormalizeContent(content) ==
    IF content = << >> THEN << >>
    ELSE LET c == Head(content)
         IN  << IF c.node = "str" THEN [type |-> "text", value |-> c.value]
                ELSE IF c.node = "dict" THEN c.value
                ELSE [type |-> "node", value |-> Repr(c)] >>
             \o NormalizeContent(Tail(content))

\* handle_range_block with the label read from the range argument alone
handle_range_block_RangeOnly(b, block) ==
    IF block.start = NoneNode \/ block.end = NoneNode
    THEN [b EXCEPT !.raised = "AttributeError"]
    ELSE [b EXCEPT !.entries = Append(@,
            [type |-> "range_block",
             label |-> Get(block.start.args, "range"),
             start |-> Get(block.start.args, "range"),
             end |-> block.end.kind,
             content |-> NormalizeContent(block.content)])]

\* handle_range_block; block.start.args raises AttributeError on a start
\* of None, block.end.kind on an end of None
handle_range_block(b, block) ==
    IF block.start = NoneNode \/ block.end = NoneNode
    THEN [b EXCEPT !.raised = "AttributeError"]
    ELSE [b EXCEPT !.entries = Append(@,
            [type |-> "range_block",
             label |-> Or(Get(block.start.args, "range"),
                          Get(block.start.args, "label")),
             start |-> Get(block.start.args, "range"),
             end |-> block.end.kind,
             content |-> NormalizeContent(block.content)])]

\* ProcessNode with the toggle written to self.enabled, the attribute
\* handle_directive writes, instead of self.processing_enabled
ProcessNode_StrayFlag(b, node) ==
    IF node.node = "ProcessingControl"
    THEN [b EXCEPT !.enabled = IF node.enabled THEN "True" ELSE "False"]
    ELSE IF ~b.processing_enabled THEN b
    ELSE IF node.node = "IndexDirective" THEN handle_directive(b, node)
    ELSE IF node.node = "IndexMark" THEN handle_mark(b, node)
    ELSE IF node.node = "IndexRangeBlock" THEN handle_range_block(b, node)
    ELSE [b EXCEPT !.entries =
            Append(@, [type |-> "unknown", value |-> Repr(node)])]

\* ProcessNode with the IndexRangeBlock case ahead of the disabled case
ProcessNode_BlockFirst(b, node) ==
    IF node.node = "ProcessingControl"
    THEN [b EXCEPT !.processing_enabled = node.enabled]
    ELSE IF node.node = "IndexRangeBlock" THEN handle_range_block(b, node)
    ELSE IF ~b.processing_enabled THEN b
    ELSE IF node.node = "IndexDirective" THEN handle_directive(b, node)
    ELSE IF node.node = "IndexMark" THEN handle_mark(b, node)
    ELSE [b EXCEPT !.entries =
            Append(@, [type |-> "unknown", value |-> Repr(node)])]

\* one iteration of the loop of process
ProcessNode(b, node) ==
    IF node.node = "ProcessingControl"
    THEN [b EXCEPT !.processing_enabled = node.enabled]
    ELSE IF ~b.processing_enabled THEN b
    ELSE IF node.node = "IndexDirective" THEN handle_directive(b, node)
    ELSE IF node.node = "IndexMark" THEN handle_mark(b, node)
    ELSE IF node.node = "IndexRangeBlock" THEN handle_range_block(b, node)
    ELSE [b EXCEPT !.entries =
            Append(@, [type |-> "unknown", value |-> Repr(node)])]

\* process(nodes): the loop, which an exception leaves
RECURSIVE process(_, _)
process(b, nodes) ==
    IF nodes = << >> \/ b.raised # "none" THEN b
    ELSE process(ProcessNode(b, Head(nodes)), Tail(nodes))

----------------------------------------------------------------------------
(* finalize.  An entry is a dict; group_entries and sort_entries pass the  *)
(* entries themselves on (here: their positions in the entry list), and    *)
(* merge_duplicates copies an entry shallowly, so that the copy's refs is  *)
(* the very list object of the entry it was copied from.                   *)

\* GroupLabel with the range argument ahead of the term argument
GroupLabel_RangeFirst(entry) ==
    Or(Or(Get(entry.args, "range"), Get(entry.args, "term")),
       Get(entry, "label"))

\* the label group_entries derives for an entry
GroupLabel(entry) ==
    Or(Or(Get(entry.args, "term"), Get(entry.args, "range")),
       Get(entry, "label"))

\* whether group_entries keeps the entry
Grouped(entry) ==
    /\ entry.type \in {"directive", "range"}
    /\ Truthy(GroupLabel(entry))

\* key = label[0].upper()
GroupKey(entry) == << Upper(Head(GroupLabel(entry))) >>

\* group_entries: bucket key |-> the positions of its entries, in order
group_entries(es) ==
    [key \in {GroupKey(es[i]) : i \in {j \in 1..Len(es) : Grouped(es[j])}} |->
        SelectSeq([i \in 1..Len(es) |-> i],
                  LAMBDA i : Grouped(es[i]) /\ GroupKey(es[i]) = key)]

\* the key of sort_entries
SortKey(e) == Or(Get(e, "label"), GetDefault(e.args, "term", s_empty))

\* sorted(items, key=...): stable, so each item goes behind the items
\* whose key is not greater than its own
RECURSIVE sort_entries(_, _)
sort_entries(es, items) ==
    IF items = << >> THEN << >>
    ELSE LET n == Len(items)
             front == sort_entries(es, SubSeq(items, 1, n - 1))
             x == items[n]
             keep == SelectSeq(front,
                       LAMBDA i : StrLeq(SortKey(es[i]), SortKey(es[x])))
             rest == SelectSeq(front,
                       LAMBDA i : ~StrLeq(SortKey(es[i]), SortKey(es[x])))
         IN  keep \o <<x>> \o rest

\* the label of merge_duplicates
MergeLabel(e) == Or(Or(Get(e, "label"), Get(e.args, "term")), s_empty)

\* MergeLoop with the refs of a label seen before assigned, not extended
RECURSIVE MergeLoop_Assign(_, _, _)
MergeLoop_Assign(items, merged, es) ==
    IF items = << >> THEN [merged |-> merged, es |-> es]
    ELSE LET i == Head(items)
             e == es[i]
             label == Or(Or(Get(e, "label"), Get(e.args, "term")), s_empty)
             seen == {j \in 1..Len(merged) : merged[j].label = label}
         IN  IF seen # {}
             THEN LET j == CHOOSE k \in seen : TRUE
                      refs == GetDefault(e, "refs", << >>)
                  IN  MergeLoop_Assign(Tail(items),
                                       [merged EXCEPT ![j].refs = refs], es)
             ELSE MergeLoop_Assign(Tail(items),
                                   Append(merged,
                                          [first |-> i, label |-> label,
                                           refs |-> GetDefault(e, "refs",
                                                               << >>)]),
                                   es)

\* the loop of merge_duplicates over the positions `items`.  merged holds,
\* per merged entry, the position it was copied from, its label and its
\* refs; es is the entry list, which changes when the refs list extended
\* is the list of the entry copied from.
RECURSIVE MergeLoop(_, _, _)
MergeLoop(items, merged, es) ==
    IF items = << >> THEN [merged |-> merged, es |-> es]
    ELSE LET i == Head(items)
             e == es[i]
             label == MergeLabel(e)
             seen == {j \in 1..Len(merged) : merged[j].label = label}
         IN  IF seen # {}
             THEN LET j == CHOOSE k \in seen : TRUE
                      first == merged[j].first
                      refs == merged[j].refs \o GetDefault(e, "refs", << >>)
                  IN  MergeLoop(Tail(items),
                                [merged EXCEPT ![j].refs = refs],
                                IF "refs" \in DOMAIN es[first]
                                THEN [es EXCEPT ![first].refs = refs]
                                ELSE es)
             ELSE MergeLoop(Tail(items),
                            Append(merged,
                                   [first |-> i, label |-> label,
                                    refs |-> GetDefault(e, "refs", << >>)]),
                            es)

\* merge_duplicates
merge_duplicates(es, items) == MergeLoop(items, << >>, es)

\* {**e, "refs": refs}
WithRefs(e, refs) ==
    [k \in DOMAIN e \cup {"refs"} |-> IF k = "refs" THEN refs ELSE e[k]]

\* finalize: [grouped |-> the mapping returned and stored, entries |-> the
\* entry list afterwards].  No entry is in two buckets, so each bucket is
\* merged from the list as finalize found it.
finalize(es) ==
    LET grouped == group_entries(es)
        bucket == [key \in DOMAIN grouped |->
                     merge_duplicates(es, sort_entries(es, grouped[key]))]
    IN  [grouped |->
            [key \in DOMAIN grouped |->
                [list |-> [j \in 1..Len(bucket[key].merged) |->
                    WithRefs(es[bucket[key].merged[j].first],
                             bucket[key].merged[j].refs)]]],
         entries |->
            [i \in 1..Len(es) |->
                IF Grouped(es[i]) THEN bucket[GroupKey(es[i])].es[i]
                ELSE es[i]]]

----------------------------------------------------------------------------
(* The nodes and entry lists the model draws its inputs from *)

Marks ==
    { IndexMark(s_A, <<s_a, s_b>>),      \* {^A>a>b}
      IndexMark(s_A, <<s_b>>),           \* {^A>b}
      IndexMark(s_b, << >>) }            \* {^b}

Controls == { ProcessingControl(TRUE), ProcessingControl(FALSE) }

Directives ==
    { IndexDirective("index", "insert", [term |-> s_ab]),
      IndexDirective("index", "disable", << >>) }

RangeBlocks ==
    { IndexRangeBlock(IndexDirective("index", "open", [range |-> s_ab]),
                      << Text(s_a), IndexMark(s_b, << >>),
                         ProcessingControl(TRUE) >>,
                      IndexDirective("index", "close", << >>)) }

Nodes == Marks \cup Controls \cup Directives \cup RangeBlocks \cup {Text(s_a)}

\* the node sequences of one process call
NodeSeqs == UNION { [1..n -> Nodes] : n \in 1..MaxNodes }

\* entries as handle_directive and handle_mark record them, and the same
\* with a refs list, as a caller that assigns builder.entries supplies them
DirectiveEntries ==
    { DirectiveEntry(IndexDirective("index", "insert", [term |-> s_ab])),
      WithRefs(DirectiveEntry(
          IndexDirective("index", "insert", [term |-> s_ab])), <<1>>),
      WithRefs(DirectiveEntry(
          IndexDirective("index", "insert", [term |-> s_ab])), <<2>>),
      WithRefs(DirectiveEntry(
          IndexDirective("index", "insert", [term |-> s_a])), <<3>>),
      DirectiveEntry(IndexDirective("index", "insert", [term |-> s_Ab])),
      DirectiveEntry(IndexDirective("index", "open", [range |-> s_ab])),
      WithRefs(DirectiveEntry(
          IndexDirective("index", "open", [range |-> s_a])), <<4>>),
      DirectiveEntry(IndexDirective("index", "force",
                                    [term |-> s_empty, range |-> s_ab])),
      DirectiveEntry(IndexDirective("index", "insert", << >>)) }

RangeEntries ==
    { DirectiveEntry(IndexDirective("index", "range",
                                    [range |-> s_b, term |-> s_a])),
      DirectiveEntry(IndexDirective("index", "range", [range |-> s_ba])) }

OtherEntries == { MarkEntry(IndexMark(s_A, <<s_b>>)) }

Entries == DirectiveEntries \cup RangeEntries \cup OtherEntries

\* the entry lists assigned to builder.entries
EntryLists == UNION { [1..n -> Entries] : n \in 0..MaxEntries }

----------------------------------------------------------------------------
(* The builder as a state machine *)

\* the builder held in the variables, about to serve a call
Self ==
    [entries |-> entries, index |-> index,
     processing_enabled |-> processing_enabled, enabled |-> enabled,
     raised |-> "none"]

\* what a call that returns None, or raises, returns
NoResult == [none |-> TRUE]

\* builder = IndexBuilder()
Init ==
    /\ entries = NewBuilder.entries
    /\ index = NewBuilder.index
    /\ processing_enabled = NewBuilder.processing_enabled
    /\ enabled = NewBuilder.enabled
    /\ fed = << >>
    /\ op = "init"
    /\ result = NoResult
    /\ raised = "none"
    /\ finalizes = 0
    /\ source = << >>

\* builder.process(nodes)
Process(nodes) ==
    /\ LET b == process(Self, nodes)
       IN  /\ entries' = b.entries
           /\ index' = b.index
           /\ processing_enabled' = b.processing_enabled
           /\ enabled' = b.enabled
           /\ raised' = b.raised
    /\ fed' = fed \o nodes
    /\ op' = "process"
    /\ result' = NoResult
    /\ UNCHANGED <<finalizes, source>>

\* builder.finalize()
Finalize ==
    /\ finalizes < MaxFinalize
    /\ LET r == finalize(entries)
       IN  /\ entries' = r.entries
           /\ index' = [dict |-> r.grouped]
           /\ result' = [dict |-> r.grouped]
    /\ op' = "finalize"
    /\ raised' = "none"
    /\ finalizes' = finalizes + 1
    /\ UNCHANGED <<processing_enabled, enabled, fed, source>>

\* builder.as_dict(): self.index or self.finalize()
AsDict ==
    /\ IF index # EmptyDict
       THEN /\ result' = index
            /\ UNCHANGED <<entries, index, finalizes>>
       ELSE LET r == finalize(entries)
            IN  /\ finalizes < MaxFinalize
                /\ entries' = r.entries
                /\ index' = [dict |-> r.grouped]
                /\ result' = [dict |-> r.grouped]
                /\ finalizes' = finalizes + 1
    /\ op' = "as_dict"
    /\ raised' = "none"
    /\ UNCHANGED <<processing_enabled, enabled, fed, source>>

NextProcess ==
    \E nodes \in NodeSeqs : Len(fed) + Len(nodes) <= MaxFed /\ Process(nodes)

\* a builder that is only fed
SpecProcess == Init /\ [][NextProcess]_vars

Next ==
    \/ \E nodes \in NodeSeqs :
          Len(fed) + Len(nodes) <= MaxLife /\ Process(nodes)
    \/ Finalize
    \/ AsDict

\* a builder that is fed, finalized and read in any order
Spec == Init /\ [][Next]_vars

\* builder = IndexBuilder(); builder.entries = [...]
InitEntries ==
    /\ entries \in EntryLists
    /\ index = NewBuilder.index
    /\ processing_enabled = NewBuilder.processing_enabled
    /\ enabled = NewBuilder.enabled
    /\ fed = << >>
    /\ op = "assign"
    /\ result = NoResult
    /\ raised = "none"
    /\ finalizes = 0
    /\ source = << >>

NextEntries ==
    \/ Finalize
    \/ AsDict

\* the builder on an entry list a caller assigned
SpecEntries == InitEntries /\ [][NextEntries]_vars

----------------------------------------------------------------------------
(* Properties of process *)

\* the positions 1..Len(seq) that satisfy Test, in order
Positions(seq, Test(_)) == SelectSeq([k \in 1..Len(seq) |-> k], Test)

\* whether the nearest ProcessingControl before position k of seq enables
\* processing; true when there is none
EnabledAt(seq, k) ==
    LET cs == {j \in 1..(k - 1) : seq[j].node = "ProcessingControl"}
    IN  cs = {} \/ seq[CHOOSE j \in cs : \A i \in cs : i <= j].enabled

\* the marks fed while processing was enabled
EnabledMarks ==
    Positions(fed, LAMBDA k : fed[k].node = "IndexMark" /\ EnabledAt(fed, k))

\* the mark entries of the entry list
MarkEntries == SelectSeq(entries, LAMBDA e : e.type = "mark")

\* C1: the mark entries are exactly the marks fed while the nearest
\* ProcessingControl before them (if any) had enabled = true, in input
\* order: as many entries as such marks, the k-th entry carrying the k-th
\* such mark's heading and subheadings.
C1_MarksRecordedWhileEnabled ==
    /\ Len(MarkEntries) = Len(EnabledMarks)
    /\ \A k \in 1..Len(EnabledMarks) :
          /\ MarkEntries[k].heading = fed[EnabledMarks[k]].heading
          /\ MarkEntries[k].subheadings = fed[EnabledMarks[k]].subheadings

\* a mark was fed while disabled, another after processing was enabled
\* again, and only the second is in the entry list
C1_Witness ==
    /\ Len(fed) = 4
    /\ fed[1] = ProcessingControl(FALSE)
    /\ fed[2] = IndexMark(s_b, << >>)
    /\ fed[3] = ProcessingControl(TRUE)
    /\ fed[4] = IndexMark(s_A, <<s_b>>)
    /\ Len(entries) = 1
    /\ entries[1].heading = s_A

\* the nodes fed, less the range blocks fed while processing was disabled
WithoutDisabledBlocks ==
    LET keep == Positions(fed, LAMBDA k :
                    ~(fed[k].node = "IndexRangeBlock" /\ ~EnabledAt(fed, k)))
    IN  [k \in 1..Len(keep) |-> fed[keep[k]]]

\* C2: a range block met while processing is disabled is skipped as a unit:
\* the entry list, the hierarchy tree and processing_enabled are what a
\* fresh builder has after the same nodes without those blocks, so that
\* nothing of the block or its content is appended and a ProcessingControl
\* in its content is not observed.
C2_DisabledBlockSkipped ==
    LET b == process(NewBuilder, WithoutDisabledBlocks)
    IN  /\ entries = b.entries
        /\ index = b.index
        /\ processing_enabled = b.processing_enabled

\* a block that holds a mark and an enabling ProcessingControl was fed while
\* disabled; nothing was recorded and processing is still disabled
C2_Witness ==
    /\ Len(fed) = 2
    /\ fed[1] = ProcessingControl(FALSE)
    /\ fed[2] \in RangeBlocks
    /\ \E k \in 1..Len(fed[2].content) : fed[2].content[k].node = "IndexMark"
    /\ \E k \in 1..Len(fed[2].content) :
          fed[2].content[k] = ProcessingControl(TRUE)
    /\ entries = << >>
    /\ index = EmptyDict
    /\ ~processing_enabled

\* the key paths of a nested mapping
RECURSIVE Paths(_)
Paths(tree) ==
    IF ~IsDict(tree) THEN {}
    ELSE UNION { {<<key>>} \cup {<<key>> \o p : p \in Paths(tree.dict[key])} :
                 key \in DOMAIN tree.dict }

\* every level of a nested mapping is a mapping
RECURSIVE AllMappings(_)
AllMappings(tree) ==
    /\ IsDict(tree)
    /\ \A key \in DOMAIN tree.dict : AllMappings(tree.dict[key])

\* the non-empty prefixes of a path
Prefixes(path) == { SubSeq(path, 1, n) : n \in 1..Len(path) }

\* C7: the hierarchy tree holds exactly the non-empty prefixes of the full
\* paths (heading, then subheadings) of the marks processed while enabled,
\* as nested mappings; a path with no longer path through it ends in an
\* empty mapping.
C7_TreeIsPrefixesOfMarks ==
    /\ AllMappings(index)
    /\ Paths(index) =
         UNION { Prefixes(<<fed[EnabledMarks[k]].heading>>
                          \o fed[EnabledMarks[k]].subheadings) :
                 k \in 1..Len(EnabledMarks) }

\* {^A>a>b}, {^A>b} and {^b} were processed: A has the children a (holding
\* b) and b, and the root b shares nothing with A
C7_Witness ==
    /\ Len(MarkEntries) = 3
    /\ DOMAIN index.dict = {s_A, s_b}
    /\ DOMAIN index.dict[s_A].dict = {s_a, s_b}
    /\ DOMAIN index.dict[s_A].dict[s_a].dict = {s_b}
    /\ index.dict[s_A].dict[s_a].dict[s_b] = EmptyDict
    /\ index.dict[s_A].dict[s_b] = EmptyDict
    /\ index.dict[s_b] = EmptyDict

\* C10: the entry list holds no entry that records an enable/disable
\* control action.
C10_NoControlEntry ==
    \A k \in 1..Len(entries) : entries[k].type # "control"

----------------------------------------------------------------------------
(* Properties of finalize and as_dict *)

\* an entry without its refs
WithoutRefs(e) == [k \in DOMAIN e \ {"refs"} |-> e[k]]

\* the refs of an entry, none if it has no refs list
RefsOf(e) == IF "refs" \in DOMAIN e THEN e.refs ELSE << >>

\* the label of an entry: its label field, else its term argument, else ""
LabelOf(e) ==
    IF "label" \in DOMAIN e /\ Truthy(e.label) THEN e.label
    ELSE IF "term" \in DOMAIN e.args /\ Truthy(e.args.term) THEN e.args.term
    ELSE s_empty

\* the first present of the term argument, the range argument and the
\* label field
FirstPresentLabel(e) ==
    IF "term" \in DOMAIN e.args THEN e.args.term
    ELSE IF "range" \in DOMAIN e.args THEN e.args.range
    ELSE IF "label" \in DOMAIN e THEN e.label
    ELSE None

\* the first that is present and not empty of the same three
FirstNonEmptyLabel(e) ==
    IF "term" \in DOMAIN e.args /\ Truthy(e.args.term) THEN e.args.term
    ELSE IF "range" \in DOMAIN e.args /\ Truthy(e.args.range)
    THEN e.args.range
    ELSE IF "label" \in DOMAIN e /\ Truthy(e.label) THEN e.label
    ELSE None

\* the positions of es that finalize is to group under Label, and their keys
GroupedUnder(Label(_), es) ==
    { i \in 1..Len(es) :
        es[i].type \in {"directive", "range"} /\ Truthy(Label(es[i])) }

KeyUnder(Label(_), e) == << Upper(Head(Label(e))) >>

\* the concatenation of the refs of the entries of es at the positions ps
RECURSIVE ConcatRefs(_, _)
ConcatRefs(es, ps) ==
    IF ps = << >> THEN << >>
    ELSE RefsOf(es[Head(ps)]) \o ConcatRefs(es, Tail(ps))

\* C3: finalize called twice in a row returns the same output both times.
C3_FinalizeTwiceSame ==
    [][(op = "finalize" /\ op' = "finalize") => result' = result]_vars

\* the entry list es finalized into res: per bucket and per label of an
\* entry grouped there, one entry, whose refs are those of the entries of
\* that label in list order and whose other fields are the first one's
MergedByLabel(es, res) ==
    \A key \in DOMAIN res.dict :
        LET bucket == res.dict[key].list
            members == { i \in GroupedUnder(FirstNonEmptyLabel, es) :
                           KeyUnder(FirstNonEmptyLabel, es[i]) = key }
            labels == { LabelOf(es[i]) : i \in members }
        IN  /\ Len(bucket) = Cardinality(labels)
            /\ \A label \in labels : \E j \in 1..Len(bucket) :
                  LET same == Positions(es, LAMBDA i :
                                  i \in members /\ LabelOf(es[i]) = label)
                  IN  /\ bucket[j].refs = ConcatRefs(es, same)
                      /\ WithoutRefs(bucket[j]) = WithoutRefs(es[same[1]])

\* C4: in finalize's result the entries of a bucket that share a label (the
\* label field, else the term argument, else the empty string) are merged
\* into exactly one entry; its refs is the concatenation of their refs
\* lists, as finalize found them, in entry-list order, and its other fields
\* are those of the first of them.
C4_MergeConcatenatesRefs ==
    [][finalizes' = finalizes + 1 => MergedByLabel(entries, result')]_vars

\* two entries of term "ab" with refs [1] and [2] were finalized into one
\* entry with refs [1, 2]
C4_Witness ==
    /\ op = "finalize"
    /\ finalizes = 1
    /\ Len(entries) = 2
    /\ \A k \in 1..2 : entries[k].type = "directive"
    /\ LabelOf(entries[1]) = s_ab /\ LabelOf(entries[2]) = s_ab
    /\ RefsOf(entries[2]) = <<2>>
    /\ DOMAIN result.dict = {s_A}
    /\ Len(result.dict[s_A].list) = 1
    /\ result.dict[s_A].list[1].refs = <<1, 2>>

\* the entry list es grouped into res with Label as the group label: the
\* buckets are the keys of the entries to group, every bucket entry is one
\* of them (refs aside) under its key, and each of them has the entry of
\* its label in the bucket of its key
GroupedBy(Label(_), es, res) ==
    LET grouped == GroupedUnder(Label, es)
    IN  /\ DOMAIN res.dict = { KeyUnder(Label, es[i]) : i \in grouped }
        /\ \A key \in DOMAIN res.dict :
             \A j \in 1..Len(res.dict[key].list) :
               \E i \in grouped :
                 /\ KeyUnder(Label, es[i]) = key
                 /\ WithoutRefs(res.dict[key].list[j]) = WithoutRefs(es[i])
        /\ \A i \in grouped :
             \E j \in 1..Len(res.dict[KeyUnder(Label, es[i])].list) :
               LabelOf(res.dict[KeyUnder(Label, es[i])].list[j])
                 = LabelOf(es[i])

\* C5, as claimed: finalize groups exactly the directive and range entries
\* whose group label, the first present of term argument, range argument
\* and label field, is not empty, each under the uppercased first character
\* of that label.
C5_GroupsByFirstPresent ==
    [][finalizes' = finalizes + 1 =>
         GroupedBy(FirstPresentLabel, entries, result')]_vars

\* C5, amended: finalize groups exactly the directive and range entries
\* with a group label, the group label being the first that is present and
\* not empty of term argument, range argument and label field; each is in
\* the bucket keyed by the uppercased first character of that label, and
\* no other entry is in any bucket.
C5_GroupsByFirstNonEmpty ==
    [][finalizes' = finalizes + 1 =>
         GroupedBy(FirstNonEmptyLabel, entries, result')]_vars

\* a mark entry and a directive entry with an empty term and the range
\* "ab" were finalized: the one bucket is A
C5_Witness ==
    /\ op = "finalize"
    /\ Len(entries) = 2
    /\ entries[1].type = "mark"
    /\ entries[2].type = "directive"
    /\ entries[2].args = [term |-> s_empty, range |-> s_ab]
    /\ DOMAIN result.dict = {s_A}
    /\ Len(result.dict[s_A].list) = 1

\* C6: in finalize's result, of two adjacent entries of a bucket the first
\* has the lesser or equal label, the label being the one that placed the
\* entry in the bucket.
C6_BucketsAscending ==
    op = "finalize" =>
        \A key \in DOMAIN result.dict :
            \A j \in 1..(Len(result.dict[key].list) - 1) :
                StrLeq(FirstNonEmptyLabel(result.dict[key].list[j]),
                       FirstNonEmptyLabel(result.dict[key].list[j + 1]))

\* C8: on a builder that was only fed, as_dict returns what finalize
\* computes from the entry list.
C8_AsDictIsFinalized ==
    [][(finalizes = 0 /\ op' = "as_dict") =>
         result' = [dict |-> finalize(entries).grouped]]_vars

\* C9: once finalize has stored the index, a process call leaves the
\* stored index unchanged and does not raise.
C9_IndexImmutable ==
    [][(finalizes > 0 /\ op' = "process") =>
         (index' = index /\ raised' = "none")]_vars

----------------------------------------------------------------------------
(* handle_directive on directives of every kind *)

\* the kinds handle_directive has a case for, and one it has none for
DirectiveKinds ==
    {"insert", "open", "close", "force", "range", "see", "seealso",
     "disable", "enable", "unknown"}

\* the argument mappings of the directives
DirectiveArgs ==
    { << >>, [range |-> s_ab], [seealso |-> s_b],
      [see |-> s_a, seealso |-> s_b] }

\* directives of every kind; kind is an attribute a caller can assign
KindDirectives ==
    { IndexDirective("index", kind, args) :
        kind \in DirectiveKinds, args \in DirectiveArgs }
    \cup { IndexDirective("glossary", "insert", [term |-> s_a]) }

\* builder.process([node]) with a directive or a ProcessingControl
NextDirectives ==
    \E node \in KindDirectives \cup Controls :
        Len(fed) < MaxDirectives /\ Process(<<node>>)

\* a builder that is fed directives and processing controls, one at a time
SpecDirectives == Init /\ [][NextDirectives]_vars

\* the directives fed while processing was enabled
EnabledDirectives ==
    Positions(fed, LAMBDA k :
        fed[k].node = "IndexDirective" /\ EnabledAt(fed, k))

C12_UnknownKindPreserved ==
    /\ Len(entries) = Len(EnabledDirectives)
    /\ \A k \in 1..Len(EnabledDirectives) :
          LET d == fed[EnabledDirectives[k]]
          IN  d.kind \notin {"insert", "open", "close", "force", "range",
                             "see", "seealso"} =>
                 entries[k] = [type |-> "unknown_directive",
                               kind |-> d.kind, args |-> d.args]

----------------------------------------------------------------------------
(* handle_range_block on blocks of every shape *)

\* the argument mappings of a block's start directive
StartArgs ==
    { << >>, [range |-> s_ab], [label |-> s_b],
      [range |-> s_ab, label |-> s_b], [range |-> s_empty, label |-> s_b] }

\* the content lists of a block: none, text runs, and text with a mark, a
\* directive and a block nested
BlockContents ==
    { << >>,
      << Text(s_a), Text(s_b) >>,
      << Text(s_a), IndexMark(s_b, << >>),
         IndexDirective("index", "insert", [term |-> s_ab]),
         IndexRangeBlock(IndexDirective("index", "open", [range |-> s_a]),
                         << Text(s_b) >>,
                         IndexDirective("index", "close", << >>)) >> }

\* the blocks with a start and an end directive
WellFormedBlocks ==
    { IndexRangeBlock(IndexDirective("index", "open", args), content,
                      IndexDirective("index", "close", << >>)) :
        args \in StartArgs, content \in BlockContents }

\* a block whose start is None
MalformedBlocks ==
    { IndexRangeBlock(NoneNode, << Text(s_a) >>,
                      IndexDirective("index", "close", << >>)) }

BlockNodes ==
    WellFormedBlocks \cup MalformedBlocks \cup Controls
    \cup { IndexMark(s_b, << >>) }

\* builder.process(nodes) with blocks, marks and processing controls
NextBlocks ==
    \E nodes \in UNION { [1..n -> BlockNodes] : n \in 1..MaxBlockFed } :
        Len(fed) + Len(nodes) <= MaxBlockFed /\ Process(nodes)

\* a builder that is fed range blocks
SpecBlocks == Init /\ [][NextBlocks]_vars

\* the nodes handed to the process call of this step
Handed == SubSeq(fed', Len(fed) + 1, Len(fed'))

\* this step is process([block]) on an enabled builder, the block having a
\* start directive
ReducesBlock ==
    /\ op' = "process"
    /\ processing_enabled
    /\ Len(Handed) = 1
    /\ Handed[1].node = "IndexRangeBlock"
    /\ Handed[1].start # NoneNode

\* the step appended one range_block entry whose label is label and whose
\* content has one element per element of the block's content, a text
\* entry with the string for each string
AppendsRangeBlock(label) ==
    LET block == Handed[1]
        e == entries'[Len(entries')]
    IN  /\ Len(entries') = Len(entries) + 1
        /\ SubSeq(entries', 1, Len(entries)) = entries
        /\ e.type = "range_block"
        /\ e.label = label
        /\ Len(e.content) = Len(block.content)
        /\ \A k \in 1..Len(block.content) :
              block.content[k].node = "str" =>
                 e.content[k] = [type |-> "text",
                                 value |-> block.content[k].value]

\* C13, as claimed: reducing a block appends one range_block entry whose
\* label is the start directive's range argument, or its label argument
\* when there is no range argument, and whose content has one element per
\* content element, in order, each string as a text entry with that string.
C13_LabelRangeElseLabel ==
    [][ReducesBlock =>
         LET args == Handed[1].start.args
         IN  AppendsRangeBlock(IF "range" \in DOMAIN args THEN args.range
                               ELSE IF "label" \in DOMAIN args
                               THEN args.label ELSE None)]_vars

\* C13, amended: the label is the start directive's range argument when
\* that is present and not empty, and otherwise its label argument (None
\* when it has none); the content is as claimed.
C13_LabelNonEmptyRangeElseLabel ==
    [][ReducesBlock =>
         LET args == Handed[1].start.args
         IN  AppendsRangeBlock(
                 IF "range" \in DOMAIN args /\ Truthy(args.range)
                 THEN args.range
                 ELSE IF "label" \in DOMAIN args THEN args.label
                 ELSE None)]_vars

\* a block whose start has an empty range and the label "b", and whose
\* content is the strings "a" and "b", was reduced to a range_block entry
\* with the label "b" and two text entries
C13_Witness ==
    /\ op = "process"
    /\ Len(fed) = 1
    /\ fed[1].node = "IndexRangeBlock"
    /\ fed[1].start # NoneNode
    /\ fed[1].start.args = [range |-> s_empty, label |-> s_b]
    /\ fed[1].content = << Text(s_a), Text(s_b) >>
    /\ Len(entries) = 1
    /\ entries[1].type = "range_block"
    /\ entries[1].label = s_b
    /\ entries[1].content = << [type |-> "text", value |-> s_a],
                               [type |-> "text", value |-> s_b] >>

\* C14: in the range_block entry of a block reduced while enabled, a
\* content element that is a node is reduced as a top-level node is: a mark
\* is an entry of type mark with the mark's fields, a directive the entry
\* its kind selects, a nested block a range_block entry.
C14_ContentNodesReduced ==
    [][ReducesBlock =>
         LET block == Handed[1]
             e == entries'[Len(entries')]
         IN  \A k \in 1..Len(block.content) :
               LET c == block.content[k]
               IN  /\ c.node = "IndexMark" =>
                         /\ e.content[k].type = "mark"
                         /\ e.content[k].heading = c.heading
                         /\ e.content[k].subheadings = c.subheadings
                   /\ c.node = "IndexDirective" /\ c.kind = "insert" =>
                         /\ e.content[k].type = "directive"
                         /\ e.content[k].args = c.args
                   /\ c.node = "IndexRangeBlock" =>
                         e.content[k].type = "range_block"]_vars

\* C15: process([block, mark]) on an enabled builder, the block having a
\* start of None, does not raise; it records a range_block entry with the
\* label None for the block and then the entry of the mark.
C15_MalformedBlockAbsorbed ==
    [][(/\ op' = "process"
        /\ processing_enabled
        /\ Len(Handed) = 2
        /\ Handed[1].node = "IndexRangeBlock"
        /\ Handed[1].start = NoneNode
        /\ Handed[2].node = "IndexMark")
       => /\ raised' = "none"
          /\ Len(entries') = Len(entries) + 2
          /\ entries'[Len(entries) + 1].type = "range_block"
          /\ entries'[Len(entries) + 1].label = None
          /\ entries'[Len(entries) + 2].type = "mark"
          /\ entries'[Len(entries) + 2].heading = Handed[2].heading]_vars

----------------------------------------------------------------------------
(* The parser (parser.py).  A markup text is modelled as the sequence of   *)
(* its forms: a TEXT token, a mark {^...}, a processing control {^+} or    *)
(* {^-}, or a directive form { name suffix args }.  parse follows the      *)
(* LALR(1) tables that yacc builds from the grammar, with its defaults for *)
(* the grammar's conflicts: a shift is preferred to a reduction, and of    *)
(* two reductions the production defined first is taken.                   *)

TextForm(s) == [form |-> "TEXT", value |-> s]

\* {^heading>subheading...}
MarkForm(heading, subheadings) ==
    [form |-> "mark", heading |-> heading, subheadings |-> subheadings]

\* {^+} and {^-}
ControlForm(sign) == [form |-> "control", sign |-> sign]

\* { name suffix args }: suffix is "+", "-", "!" or "" for none
DirectiveForm(name, suffix, args) ==
    [form |-> "directive", name |-> name, suffix |-> suffix, args |-> args]

\* IndexDirective.__post_init__: the kind the constructed directive ends
\* up with.  The class has slots and no suffix attribute, so the three
\* tests of getattr(self, "suffix", None) are false.
post_init(kind, args) ==
    IF kind \in {"open", "close", "force"} THEN kind
    ELSE IF "see" \in DOMAIN args THEN "see"
    ELSE IF "range" \in DOMAIN args THEN "range"
    ELSE "insert"

\* IndexDirective(name=..., kind=..., args=...) as the constructor leaves it
NewIndexDirective(name, kind, args) ==
    IndexDirective(name, post_init(kind, args), args)

\* p_directive_suffix: the suffix token, or the {} of p_empty
p_directive_suffix(suffix) == IF suffix = "" THEN "{}" ELSE suffix

\* p_directive: the value of the directive, None when it returns early
p_directive(name, suffix, args) ==
    IF name = "index" /\ suffix = "+" /\ DOMAIN args # {}
    THEN NoneNode
    ELSE LET kind == IF suffix = "+" THEN "open"
                     ELSE IF suffix = "-" THEN "close"
                     ELSE IF suffix = "!" THEN "force"
                     ELSE IF "see" \in DOMAIN args THEN "see"
                     ELSE "insert"
         IN  NewIndexDirective(name, kind, args)

\* p_range_directive: the value, and whether it printed its error
p_range_directive(start_name, args, content, end_name) ==
    IF start_name = "index" /\ end_name = "index"
    THEN [value |-> IndexRangeBlock(
                        NewIndexDirective("index", "open", args), content,
                        NewIndexDirective("index", "close", << >>)),
          printed |-> << >>]
    ELSE [value |-> NoneNode, printed |-> <<"mismatched range block">>]

\* p_mark, for a heading path of plain segments
p_mark(f) == IndexMark(f.heading, f.subheadings)

\* p_processing_control
p_processing_control(f) == ProcessingControl(f.sign = "+")

\* the value of a form that is one text_element by itself
p_text_element(f) ==
    IF f.form = "TEXT" THEN Text(f.value)
    ELSE IF f.form = "mark" THEN p_mark(f)
    ELSE IF f.form = "control" THEN p_processing_control(f)
    ELSE p_directive(f.name, p_directive_suffix(f.suffix), f.args)

\* p_text_elements: the list built from the values read, in order; the
\* first is left out when it is None
p_text_elements(read) ==
    IF read = << >> THEN << >>
    ELSE (IF read[1] = NoneNode THEN << >> ELSE << read[1] >>) \o Tail(read)

\* p_start on a text_elements list
p_start(list) == IF Len(list) = 1 THEN list[1] ELSE [list |-> list]

\* the parse stack as frames: the top level, and one frame per range
\* directive whose opening form was read and whose closing form was not
Frame(name, args) == [name |-> name, args |-> args, read |-> << >>]

\* the parser over the forms left.  After { name + with an argument next
\* the tables shift, which commits to range_directive; { name - } with no
\* argument closes the innermost range directive once it has content, and
\* is a directive of its own otherwise.
RECURSIVE parse_forms(_, _, _)
parse_forms(forms, stack, printed) ==
    IF forms = << >> THEN [stack |-> stack, printed |-> printed]
    ELSE LET f == Head(forms)
             n == Len(stack)
         IN  IF f.form = "directive" /\ f.suffix = "+" /\ DOMAIN f.args # {}
             THEN parse_forms(Tail(forms),
                              Append(stack, Frame(f.name, f.args)), printed)
             ELSE IF /\ f.form = "directive" /\ f.suffix = "-"
                     /\ DOMAIN f.args = {}
                     /\ n > 1 /\ stack[n].read # << >>
             THEN LET r == p_range_directive(
                               stack[n].name, stack[n].args,
                               p_text_elements(stack[n].read), f.name)
                      rest == SubSeq(stack, 1, n - 1)
                  IN  parse_forms(Tail(forms),
                                  [rest EXCEPT ![n - 1].read =
                                                 Append(@, r.value)],
                                  printed \o r.printed)
             ELSE parse_forms(Tail(forms),
                              [stack EXCEPT ![n].read =
                                              Append(@, p_text_element(f))],
                              printed)

\* parser.parse(text): the value returned and what was printed.  An open
\* range directive at the end of the input is a syntax error, on which
\* p_error prints and parse returns None.
parse(forms) ==
    LET r == parse_forms(forms, << Frame("", << >>) >>, << >>)
        read == r.stack[1].read
    IN  IF Len(r.stack) > 1
        THEN [value |-> NoneNode,
              printed |-> r.printed \o <<"Syntax error at EOF">>]
        ELSE [value |-> IF read = << >> THEN EmptyDict
                        ELSE IF Len(read) = 1 THEN read[1]
                        ELSE p_start(p_text_elements(read)),
              printed |-> r.printed]

\* the names and argument mappings of the directive forms
FormNames == {"index", "glossary"}

FormArgs ==
    { << >>, [see |-> s_a], [seealso |-> s_a], [range |-> s_ab],
      [seealso |-> s_a, range |-> s_ab], [see |-> s_a, seealso |-> s_b],
      [term |-> s_b] }

\* a text of one directive form
DirectiveMarkups ==
    { << DirectiveForm(name, suffix, args) >> :
        name \in FormNames, suffix \in {"", "+", "-", "!"},
        args \in FormArgs }

\* the forms of the texts with range directives
RangeForms ==
    { DirectiveForm("index", "+", [range |-> s_ab]),
      DirectiveForm("glossary", "+", [range |-> s_ab]),
      DirectiveForm("index", "+", << >>),
      DirectiveForm("index", "-", << >>),
      DirectiveForm("glossary", "-", << >>),
      TextForm(s_a),
      MarkForm(s_b, << >>) }

RangeMarkups == UNION { [1..n -> RangeForms] : n \in 0..MaxForms }

Markups == DirectiveMarkups \cup RangeMarkups \cup { << ControlForm("-") >> }

\* text = ...
InitParser ==
    /\ source \in Markups
    /\ entries = NewBuilder.entries
    /\ index = NewBuilder.index
    /\ processing_enabled = NewBuilder.processing_enabled
    /\ enabled = NewBuilder.enabled
    /\ fed = << >>
    /\ op = "init"
    /\ result = NoResult
    /\ raised = "none"
    /\ finalizes = 0

\* result = make_parser().parse(text, lexer=make_lexer())
Parse ==
    /\ op = "init"
    /\ result' = parse(source)
    /\ op' = "parse"
    /\ UNCHANGED <<entries, index, processing_enabled, enabled, fed, raised,
                   finalizes, source>>

SpecParser == InitParser /\ [][Parse]_vars

\* the kind by suffix, then by the first present of see, seealso, range
KindBySuffixThenKeys(suffix, args) ==
    IF suffix = "+" THEN "open"
    ELSE IF suffix = "-" THEN "close"
    ELSE IF suffix = "!" THEN "force"
    ELSE IF "see" \in DOMAIN args THEN "see"
    ELSE IF "seealso" \in DOMAIN args THEN "seealso"
    ELSE IF "range" \in DOMAIN args THEN "range"
    ELSE "insert"

\* C16: a text of one directive form that parses to a directive gives the
\* kind open, close or force for the suffix +, - or ! whatever the
\* arguments; with no suffix the kind see, seealso or range of the first
\* present of these argument keys; and insert otherwise.
C16_KindBySuffixThenKeys ==
    (/\ op = "parse"
     /\ Len(source) = 1
     /\ source[1].form = "directive"
     /\ result.value.node = "IndexDirective")
    => result.value.kind =
         KindBySuffixThenKeys(source[1].suffix, source[1].args)

\* the text is { n + args } content { m - }, with at least one argument
\* and a content of at least one text or mark
IsPair(forms) ==
    /\ Len(forms) >= 3
    /\ forms[1].form = "directive" /\ forms[1].suffix = "+"
    /\ DOMAIN forms[1].args # {}
    /\ forms[Len(forms)].form = "directive"
    /\ forms[Len(forms)].suffix = "-"
    /\ DOMAIN forms[Len(forms)].args = {}
    /\ \A k \in 2..(Len(forms) - 1) : forms[k].form \in {"TEXT", "mark"}

\* C17: { n + args } content { n - } parses to a range block whose start
\* is the open directive n with args, whose end is the close directive n
\* and whose content is the text and nodes between, in order, for every
\* name n; when the closing name differs, an error is reported and the
\* result is no range block.
C17_PairParsesToRangeBlock ==
    (op = "parse" /\ IsPair(source)) =>
        LET n == Len(source)
            content == [k \in 1..(n - 2) |-> p_text_element(source[k + 1])]
        IN  IF source[1].name = source[n].name
            THEN result.value =
                   IndexRangeBlock(
                       IndexDirective(source[1].name, "open", source[1].args),
                       content,
                       IndexDirective(source[1].name, "close", << >>))
            ELSE /\ result.printed # << >>
                 /\ ~("node" \in DOMAIN result.value
                      /\ result.value.node = "IndexRangeBlock")

\* C18: a text that is one opening form { name + args } with at least one
\* argument, and so has no closing form, parses to the directive name of
\* kind open with those args, not to None.
C18_UnclosedOpenIsDirective ==
    (/\ op = "parse"
     /\ Len(source) = 1
     /\ source[1].form = "directive"
     /\ source[1].suffix = "+"
     /\ DOMAIN source[1].args # {})
    => result.value =
         IndexDirective(source[1].name, "open", source[1].args)

----------------------------------------------------------------------------
(* The lexer (lexer.py), as the scanner lex builds from its rules: at each *)
(* position the characters of t_ignore are passed over, then the rules are *)
(* tried, the functions first in the order of their definition, and when   *)
(* none matches t_error is called.  lexpos counts from 0, as in lex.       *)

\* t_ignore = " \t\r"
t_ignore == {32, 9, 13}

\* the characters of t_TEXT, [A-Za-z0-9_]
TextChars == (48..57) \cup (65..90) \cup (97..122) \cup {95}

\* the rules that match one character: the token type, "" if none does
CharToken(c) ==
    CASE c = 94 -> "CARET"   [] c = 61 -> "EQUALS"   [] c = 33 -> "EXCL"
      [] c = 62 -> "GT"      [] c = 35 -> "HASH"     [] c = 123 -> "LBRACE"
      [] c = 91 -> "LBRACKET" [] c = 45 -> "MINUS"   [] c = 124 -> "PIPE"
      [] c = 43 -> "PLUS"    [] c = 125 -> "RBRACE"  [] c = 93 -> "RBRACKET"
      [] c = 47 -> "SLASH"   [] c = 126 -> "TILDE"   [] OTHER -> ""

\* the character at position j, -1 past the end
CharAt(lexdata, j) == IF j < Len(lexdata) THEN lexdata[j + 1] ELSE -1

\* t_QUOTED from the character after the opening quote q: the position
\* after the closing quote, -1 if there is none.  \\. is a backslash and
\* any character but a newline.
RECURSIVE QuotedEnd(_, _, _)
QuotedEnd(lexdata, j, q) ==
    LET c == CharAt(lexdata, j)
    IN  IF c = -1 THEN -1
        ELSE IF c = 92
        THEN IF CharAt(lexdata, j + 1) \in {-1, 10} THEN -1
             ELSE QuotedEnd(lexdata, j + 2, q)
        ELSE IF c = q THEN j + 1
        ELSE QuotedEnd(lexdata, j + 1, q)

\* the end of the run of characters of the set cs that starts at j
RECURSIVE RunEnd(_, _, _)
RunEnd(lexdata, j, cs) ==
    IF CharAt(lexdata, j) \in cs THEN RunEnd(lexdata, j + 1, cs) ELSE j

\* t_WILDCARD at a "*": the alternatives **, *^-, *^, * in this order
WildcardEnd(lexdata, j) ==
    IF CharAt(lexdata, j + 1) = 42 THEN j + 2
    ELSE IF CharAt(lexdata, j + 1) = 94 /\ CharAt(lexdata, j + 2) = 45
    THEN j + 3
    ELSE IF CharAt(lexdata, j + 1) = 94 THEN j + 2
    ELSE j + 1

\* the rule that matches at lexpos and where its match ends; type "" when
\* no rule matches
Match(lexdata, lexpos) ==
    LET c == CharAt(lexdata, lexpos)
    IN  IF c \in {34, 39} /\ QuotedEnd(lexdata, lexpos + 1, c) # -1
        THEN [type |-> "QUOTED", end |-> QuotedEnd(lexdata, lexpos + 1, c)]
        ELSE IF c = 42
        THEN [type |-> "WILDCARD", end |-> WildcardEnd(lexdata, lexpos)]
        ELSE IF c = 10
        THEN [type |-> "newline", end |-> RunEnd(lexdata, lexpos, {10})]
        ELSE IF c \in TextChars
        THEN [type |-> "TEXT", end |-> RunEnd(lexdata, lexpos, TextChars)]
        ELSE [type |-> CharToken(c), end |-> lexpos + 1]

\* the token a matching rule returns: t_QUOTED strips the quotes,
\* t_WILDCARD sets the type TEXT
Token(lexdata, lexpos, m) ==
    IF m.type = "QUOTED"
    THEN [type |-> "QUOTED",
          value |-> SubSeq(lexdata, lexpos + 2, m.end - 1)]
    ELSE [type |-> IF m.type = "WILDCARD" THEN "TEXT" ELSE m.type,
          value |-> SubSeq(lexdata, lexpos + 1, m.end)]

\* what token() returns at the end of the input
NoToken == [type |-> "None"]

\* make_lexer() after input(text): the lexer, with what it has printed
NewLexer == [lexpos |-> 0, lineno |-> 1, printed |-> << >>]

\* t_error with t.lexer.skip(2)
t_error_SkipTwo(lexdata, lexer) ==
    [lexer EXCEPT
       !.printed = Append(@, [char |-> CharAt(lexdata, lexer.lexpos),
                              line |-> lexer.lineno,
                              lexpos |-> lexer.lexpos]),
       !.lexpos = @ + 2]

\* t_error: print the character and the line, t.lexer.skip(1)
t_error(lexdata, lexer) ==
    [lexer EXCEPT
       !.printed = Append(@, [char |-> CharAt(lexdata, lexer.lexpos),
                              line |-> lexer.lineno,
                              lexpos |-> lexer.lexpos]),
       !.lexpos = @ + 1]

\* lexer.token(): the next token or NoToken, the lexer afterwards, and
\* the exception raised; lex raises LexError when t_error has not moved
\* lexpos
RECURSIVE token(_, _)
token(lexdata, lexer) ==
    IF lexer.lexpos >= Len(lexdata)
    THEN [tok |-> NoToken, lexer |-> [lexer EXCEPT !.lexpos = @ + 1],
          raised |-> "none"]
    ELSE IF CharAt(lexdata, lexer.lexpos) \in t_ignore
    THEN token(lexdata, [lexer EXCEPT !.lexpos = @ + 1])
    ELSE LET m == Match(lexdata, lexer.lexpos)
         IN  IF m.type = "newline"
             THEN token(lexdata,
                        [lexer EXCEPT !.lexpos = m.end,
                                      !.lineno = @ + (m.end - lexer.lexpos)])
             ELSE IF m.type # ""
             THEN [tok |-> Token(lexdata, lexer.lexpos, m),
                   lexer |-> [lexer EXCEPT !.lexpos = m.end],
                   raised |-> "none"]
             ELSE LET after == t_error(lexdata, lexer)
                  IN  IF after.lexpos = lexer.lexpos
                      THEN [tok |-> NoToken, lexer |-> after,
                            raised |-> "LexError"]
                      ELSE token(lexdata, after)

\* the tokens of a text, drawn from the lexer until it has none
RECURSIVE Tokens(_, _, _)
Tokens(lexdata, lexer, tokens) ==
    LET r == token(lexdata, lexer)
    IN  IF r.tok = NoToken
        THEN [tokens |-> tokens, lexer |-> r.lexer, raised |-> r.raised]
        ELSE Tokens(lexdata, r.lexer, Append(tokens, r.tok))

\* tokenize(text) of the tests
tokenize(text) == Tokens(text, NewLexer, << >>)

\* the characters of the texts: | f ; + " space newline
LexChars == {124, 102, 59, 43, 34, 32, 10}

\* "|foo;+bar!"
CrossrefText == << 124, 102, 111, 111, 59, 43, 98, 97, 114, 33 >>

LexInputs ==
    UNION { [1..n -> LexChars] : n \in 0..MaxInput } \cup { CrossrefText }

\* text = ...
InitLexer ==
    /\ source \in LexInputs
    /\ entries = NewBuilder.entries
    /\ index = NewBuilder.index
    /\ processing_enabled = NewBuilder.processing_enabled
    /\ enabled = NewBuilder.enabled
    /\ fed = << >>
    /\ op = "init"
    /\ result = NoResult
    /\ raised = "none"
    /\ finalizes = 0

\* result = tokenize(text)
Tokenize ==
    /\ op = "init"
    /\ result' = tokenize(source)
    /\ raised' = result'.raised
    /\ op' = "tokenize"
    /\ UNCHANGED <<entries, index, processing_enabled, enabled, fed,
                   finalizes, source>>

SpecLexer == InitLexer /\ [][Tokenize]_vars

\* the text with a space at each position where t_error was called
Blanked ==
    [k \in 1..Len(source) |->
        IF \E e \in 1..Len(result.lexer.printed) :
              result.lexer.printed[e].lexpos = k - 1
        THEN 32 ELSE source[k]]

\* C19: the scan never aborts and reaches the end of the input; at a
\* character that no rule matches it passes over that one character, so
\* the tokens are those of the text with each such character replaced by a
\* space, all of them and in order; "|foo;+bar!" gives PIPE TEXT PLUS TEXT
\* EXCL.
C19_BadCharacterSkipped ==
    op = "tokenize" =>
        /\ raised = "none"
        /\ result.lexer.lexpos = Len(source) + 1
        /\ tokenize(Blanked).lexer.printed = << >>
        /\ result.tokens = tokenize(Blanked).tokens
        /\ source = CrossrefText =>
              [k \in 1..Len(result.tokens) |-> result.tokens[k].type]
                = << "PIPE", "TEXT", "PLUS", "TEXT", "EXCL" >>

\* "|foo;+bar!" was scanned: t_error was called once, at the ";", and the
\* TEXT tokens "foo" and "bar" on either side of it were emitted
C19_Witness ==
    /\ op = "tokenize"
    /\ source = CrossrefText
    /\ Len(result.lexer.printed) = 1
    /\ result.lexer.printed[1].char = 59
    /\ result.lexer.printed[1].lexpos = 4
    /\ Len(result.tokens) = 5
    /\ result.tokens[2] = [type |-> "TEXT", value |-> << 102, 111, 111 >>]
    /\ result.tokens[4] = [type |-> "TEXT", value |-> << 98, 97, 114 >>]

----------------------------------------------------------------------------
(* The entry list under finalize *)

\* C20: finalize leaves the entry list as it was: the same entries in the
\* same order, each with the same field values, the contents of its refs
\* list included.
C20_FinalizeKeepsEntries ==
    [][finalizes' = finalizes + 1 => entries' = entries]_vars

\* the entry list es finalized into res with one label per entry: every
\* entry of a bucket has a group label that starts, uppercased, with the
\* bucket's key, and the bucket holds one entry for each group label of
\* the entries grouped there, and no more
OneEntryPerGroupLabel(es, res) ==
    \A key \in DOMAIN res.dict :
        LET bucket == res.dict[key].list
            members == { i \in GroupedUnder(FirstNonEmptyLabel, es) :
                           KeyUnder(FirstNonEmptyLabel, es[i]) = key }
            labels == { FirstNonEmptyLabel(es[i]) : i \in members }
        IN  /\ \A j \in 1..Len(bucket) :
                  /\ Truthy(FirstNonEmptyLabel(bucket[j]))
                  /\ KeyUnder(FirstNonEmptyLabel, bucket[j]) = key
            /\ Len(bucket) = Cardinality(labels)
            /\ \A label \in labels : \E j \in 1..Len(bucket) :
                  FirstNonEmptyLabel(bucket[j]) = label

\* C21: finalize groups, sorts and merges by one label per entry: in its
\* result every entry of bucket K has a group label whose uppercased first
\* character is K, entries with different group labels are not merged,
\* and each bucket holds exactly one entry per group label placed in it.
C21_OneLabelThroughout ==
    [][finalizes' = finalizes + 1 =>
         OneEntryPerGroupLabel(entries, result')]_vars

====
